---------------------------- MODULE Spec2Model ----------------------------
(***************************************************************************)
(* State-machine model of the job portal in src/app.py: the three tables   *)
(* (user, job, application), the upload folder, the browser sessions and    *)
(* one action per route handler.                                            *)
(*                                                                          *)
(* Text values are sequences of one-character strings, so that strip(),     *)
(* lower() and rsplit(".", 1) are computed character by character.          *)
(* Primary keys follow SQLite's rowid rule for INTEGER PRIMARY KEY columns  *)
(* without AUTOINCREMENT: a new row gets max(id) + 1, so the id of a        *)
(* deleted last row is handed out again.  No handler reads the id of an    *)
(* application row, so table application is kept as a bag of rows without  *)
(* the id column: two rows that differ in nothing else are two copies.     *)
(***************************************************************************)
EXTENDS Integers, Sequences, FiniteSets, Bags, TLC

VARIABLES users,        \* rows of table user
          jobs,         \* rows of table job
          apps,         \* rows of table application (a bag)
          files,        \* names of the files in UPLOAD_FOLDER
          session,      \* per browser: the user id in its session cookie, 0 = none
          resp,         \* the response to the last request
          inflight      \* per worker thread: an apply request between its checks and its insert

vars == <<users, jobs, apps, files, session, resp, inflight>>

(***************************************************************************)
(* Bounds and input sets                                                    *)
(***************************************************************************)
MaxJobs == 1          \* rows of table job at any time

Clients == {"c1", "c2"}
Workers == {"w1", "w2"}
JobIds  == 1 .. MaxJobs
NoField == <<"<absent>">>     \* request.form.get(...) found no such field

(***************************************************************************)
(* Text helpers                                                             *)
(***************************************************************************)
Max(S) == CHOOSE x \in S : \A y \in S : y <= x

NextId(rows) == IF rows = {} THEN 1 ELSE Max({r.id : r \in rows}) + 1

IsSpace(ch) == ch = " "

LowerChar(ch) ==
    CASE ch = "A" -> "a"
      [] ch = "B" -> "b"
      [] ch = "C" -> "c"
      [] ch = "D" -> "d"
      [] ch = "E" -> "e"
      [] ch = "F" -> "f"
      [] ch = "O" -> "o"
      [] ch = "P" -> "p"
      [] ch = "V" -> "v"
      [] ch = "X" -> "x"
      [] OTHER    -> ch

lower(s) == [i \in 1 .. Len(s) |-> LowerChar(s[i])]

RECURSIVE lstrip(_)
lstrip(s) == IF s # <<>> /\ IsSpace(Head(s)) THEN lstrip(Tail(s)) ELSE s

RECURSIVE rstrip(_)
rstrip(s) ==
    IF s # <<>> /\ IsSpace(s[Len(s)]) THEN rstrip(SubSeq(s, 1, Len(s) - 1)) ELSE s

strip(s) == rstrip(lstrip(s))

(***************************************************************************)
(* Responses                                                                *)
(***************************************************************************)
Resp(code, flash, to) == [code |-> code, flash |-> flash, to |-> to]

Render(page) == Resp(200, "", page)

Redirect(flash, to) == Resp(302, flash, to)

Abort(code) == Resp(code, "", "")

(***************************************************************************)
(* Models: User                                                             *)
(***************************************************************************)
generate_password_hash(pwd) == <<"hash">> \o pwd

check_password(u, pwd) == u.password_hash = generate_password_hash(pwd)

User(id, fullname, email, pwd, is_admin, is_employer) ==
    [id |-> id, fullname |-> fullname, email |-> email,
     password_hash |-> generate_password_hash(pwd),
     is_admin |-> is_admin, is_employer |-> is_employer]

UserByEmail(email) == {u \in users : u.email = email}

UserById(id) == {u \in users : u.id = id}

\* flask_login: the session's user id is looked up on every request
load_user(user_id) == UserById(user_id)

is_authenticated(c) == load_user(session[c]) # {}

current_user(c) == CHOOSE u \in load_user(session[c]) : TRUE

Unauthorized == Redirect("Please log in to access this page.", "login")

(***************************************************************************)
(* Startup: create_all and the default admin                                *)
(***************************************************************************)
ADMIN_PWD == <<"A", "d", "m">>
SiteAdmin == <<"S", "A">>

BootstrapUsers(rows, email) ==
    LET found == {u \in rows : u.email = email} IN
    IF found = {}
    THEN rows \cup {User(NextId(rows), SiteAdmin, email, ADMIN_PWD, TRUE, TRUE)}
    ELSE LET admin == CHOOSE u \in found : TRUE IN
         (rows \ {admin}) \cup {[admin EXCEPT !.is_admin = TRUE, !.is_employer = TRUE]}

\* the process is started again, possibly with another ADMIN_EMAIL
Startup(email) ==
    /\ \A w \in Workers : inflight[w] = <<>>
    /\ users' = BootstrapUsers(users, email)
    /\ resp' = Abort(0)
    /\ UNCHANGED <<jobs, apps, files, session, inflight>>

(***************************************************************************)
(* Auth                                                                     *)
(***************************************************************************)
\* request.form.get(name, default)
get(form, name, default) == IF form[name] = NoField THEN default ELSE form[name]

register(c, method, form) ==
    /\ UNCHANGED <<jobs, apps, files, inflight>>
    /\ IF is_authenticated(c)
       THEN /\ resp' = Redirect("", "index")
            /\ UNCHANGED <<users, session>>
       ELSE IF method = "GET"
       THEN /\ resp' = Render("register.html")
            /\ UNCHANGED <<users, session>>
       ELSE IF form.email = NoField
       THEN /\ resp' = Abort(500)     \* None.strip() raises AttributeError
            /\ UNCHANGED <<users, session>>
       ELSE LET fullname == strip(get(form, "fullname", <<>>))
                email    == lower(strip(form.email))
                password == get(form, "password", <<>>)
                confirm  == get(form, "confirm", <<>>)
                is_employer_flag == form.is_employer = <<"o", "n">>
            IN
            IF fullname = <<>> \/ email = <<>> \/ password = <<>> \/ confirm = <<>>
            THEN /\ resp' = Redirect("Please fill all the required fields.", "register")
                 /\ UNCHANGED <<users, session>>
            ELSE IF password # confirm
            THEN /\ resp' = Redirect("Passwords do not match.", "register")
                 /\ UNCHANGED <<users, session>>
            ELSE IF UserByEmail(email) # {}
            THEN /\ resp' = Redirect("Email already registered. Please log in.", "login")
                 /\ UNCHANGED <<users, session>>
            ELSE LET user == User(NextId(users), fullname, email, password,
                                  FALSE, is_employer_flag)
                 IN /\ users' = users \cup {user}
                    /\ session' = [session EXCEPT ![c] = user.id]
                    /\ resp' = Redirect("Registered and Logged in successfully.", "index")

login(c, method, form) ==
    /\ UNCHANGED <<users, jobs, apps, files, inflight>>
    /\ IF is_authenticated(c)
       THEN /\ resp' = Redirect("", "index")
            /\ UNCHANGED session
       ELSE IF method = "GET"
       THEN /\ resp' = Render("login.html")
            /\ UNCHANGED session
       ELSE LET email    == lower(strip(get(form, "email", <<>>)))
                password == get(form, "password", <<>>)
                found    == UserByEmail(email)
            IN
            IF found # {} /\ check_password(CHOOSE u \in found : TRUE, password)
            THEN /\ session' = [session EXCEPT ![c] = (CHOOSE u \in found : TRUE).id]
                 /\ resp' = Redirect("Logged in Successfully.", "index")
            ELSE /\ resp' = Redirect("Invalid credentials.", "login")
                 /\ UNCHANGED session

logout(c) ==
    /\ UNCHANGED <<users, jobs, apps, files, inflight>>
    /\ IF ~is_authenticated(c)
       THEN /\ resp' = Unauthorized
            /\ UNCHANGED session
       ELSE /\ session' = [session EXCEPT ![c] = 0]
            /\ resp' = Redirect("Logged Out.", "index")

(***************************************************************************)
(* Models: Job, Application and the ORM delete cascades                     *)
(***************************************************************************)
Job(id, title, company, salary, description, location, job_type, poster) ==
    [id |-> id, job_title |-> title, company |-> company, salary |-> salary,
     description |-> description, location |-> location, job_type |-> job_type,
     posted_by_id |-> poster]

Application(applicant_id, job_id, cover_letter, resume_path) ==
    [applicant_id |-> applicant_id, job_id |-> job_id,
     cover_letter |-> cover_letter, resume_path |-> resume_path]

\* the rows of a bag of rows that satisfy Keep, with their copies
Rows(B, Keep(_)) == [a \in {x \in DOMAIN B : Keep(x)} |-> B[a]]

JobById(id) == {j \in jobs : j.id = id}

\* Job.applications, cascade="all, delete-orphan"
JobApplications(job) == {a \in DOMAIN apps : a.job_id = job.id}

\* User.posted_jobs and User.applications, cascade="all, delete-orphan"
PostedJobs(rows, user) == {j \in rows : j.posted_by_id = user.id}

UserApplications(user) == {a \in DOMAIN apps : a.applicant_id = user.id}

\* db.session.delete(job); db.session.commit()
DeleteJobRows(job) ==
    /\ jobs' = jobs \ {job}
    /\ apps' = Rows(apps, LAMBDA a : a \notin JobApplications(job))

\* db.session.delete(user); db.session.commit()
DeleteUserRows(user) ==
    LET posted == PostedJobs(jobs, user) IN
    /\ users' = users \ {user}
    /\ jobs' = jobs \ posted
    /\ apps' = Rows(apps, LAMBDA a : /\ a \notin UserApplications(user)
                                     /\ \A j \in posted : a \notin JobApplications(j))

(***************************************************************************)
(* Job CRUD                                                                 *)
(***************************************************************************)
\* line 236: only employer or admin can post
MayPostAlways(user) == TRUE

MayPost(user) == user.is_employer \/ user.is_admin

create_job(c, method, form) ==
    /\ UNCHANGED <<users, apps, files, session, inflight>>
    /\ IF ~is_authenticated(c)
       THEN /\ resp' = Unauthorized
            /\ UNCHANGED jobs
       ELSE IF ~MayPost(current_user(c))
       THEN /\ resp' = Redirect("Only employers can post jobs. Register as an emplyer or contact admin.", "index")
            /\ UNCHANGED jobs
       ELSE IF method = "GET"
       THEN /\ resp' = Render("create_job.html")
            /\ UNCHANGED jobs
       ELSE LET title       == strip(get(form, "job_title", <<>>))
                company     == strip(get(form, "company", <<>>))
                salary      == strip(get(form, "salary", <<>>))
                description == strip(get(form, "description", <<>>))
                location    == strip(get(form, "location", <<>>))
                job_type    == strip(get(form, "job_type", <<>>))
            IN
            IF title = <<>> \/ company = <<>> \/ description = <<>>
            THEN /\ resp' = Redirect("Please fill Title, Company and Description.", "create_job")
                 /\ UNCHANGED jobs
            ELSE /\ jobs' = jobs \cup {Job(NextId(jobs), title, company, salary,
                                           description, location, job_type,
                                           current_user(c).id)}
                 /\ resp' = Redirect("Job posted successfully.", "job_detail")

\* lines 319 and 338: the poster or an admin
MayChangeAnyone(c, job) == TRUE

MayChange(c, job) == job.posted_by_id = current_user(c).id \/ current_user(c).is_admin

edit_job(c, job_id, method, form) ==
    /\ UNCHANGED <<users, apps, files, session, inflight>>
    /\ IF ~is_authenticated(c)
       THEN /\ resp' = Unauthorized
            /\ UNCHANGED jobs
       ELSE IF JobById(job_id) = {}
       THEN /\ resp' = Abort(404)
            /\ UNCHANGED jobs
       ELSE LET job == CHOOSE j \in JobById(job_id) : TRUE IN
            IF ~MayChange(c, job)
            THEN /\ resp' = Redirect("You are not allowed to edit this job.", "job_detail")
                 /\ UNCHANGED jobs
            ELSE IF method = "GET"
            THEN /\ resp' = Render("edit_job.html")
                 /\ UNCHANGED jobs
            ELSE /\ jobs' = (jobs \ {job}) \cup
                     {[job EXCEPT
                         !.job_title   = strip(get(form, "job_title", job.job_title)),
                         !.company     = strip(get(form, "company", job.company)),
                         !.salary      = strip(get(form, "salary", job.salary)),
                         !.location    = strip(get(form, "location", job.location)),
                         !.job_type    = strip(get(form, "job_type", job.job_type)),
                         !.description = strip(get(form, "description", job.description))]}
                 /\ resp' = Redirect("Job updated.", "job_detail")

delete_job(c, job_id) ==
    /\ UNCHANGED <<users, files, session, inflight>>
    /\ IF ~is_authenticated(c)
       THEN /\ resp' = Unauthorized
            /\ UNCHANGED <<jobs, apps>>
       ELSE IF JobById(job_id) = {}
       THEN /\ resp' = Abort(404)
            /\ UNCHANGED <<jobs, apps>>
       ELSE LET job == CHOOSE j \in JobById(job_id) : TRUE IN
            IF ~MayChange(c, job)
            THEN /\ resp' = Redirect("You are not allowed to delete this job.", "job_detail")
                 /\ UNCHANGED <<jobs, apps>>
            ELSE /\ DeleteJobRows(job)
                 /\ resp' = Redirect("Job Deleted.", "index")

(***************************************************************************)
(* Resume files                                                             *)
(***************************************************************************)
ALLOWED_EXTENSIONS == {<<"p", "d", "f">>, <<"d", "o", "c">>, <<"d", "o", "c", "x">>}

HasDot(s) == \E i \in 1 .. Len(s) : s[i] = "."

\* s.rsplit(".", 1)[1]: the text after the last dot
rsplit1(s) ==
    LET last == Max({i \in 1 .. Len(s) : s[i] = "."}) IN SubSeq(s, last + 1, Len(s))

allowed_file_no_lower(filename) ==
    HasDot(filename) /\ rsplit1(filename) \in ALLOWED_EXTENSIONS

allowed_file(filename) ==
    HasDot(filename) /\ lower(rsplit1(filename)) \in ALLOWED_EXTENSIONS

\* werkzeug.utils.secure_filename on the characters used here: path separators
\* become spaces, runs of whitespace become one "_", characters outside
\* [A-Za-z0-9_.-] are dropped, leading and trailing "." and "_" are stripped.
SafeChars ==
    {"a", "b", "c", "d", "e", "f", "o", "p", "v", "x",
     "A", "B", "C", "D", "E", "F", "O", "P", "V", "X",
     "0", "1", "2", "3", "4", "5", "6", "7", "8", "9", "_", ".", "-"}

RECURSIVE JoinWords(_, _)
JoinWords(s, pending) ==
    IF s = <<>> THEN <<>>
    ELSE IF IsSpace(Head(s)) \/ Head(s) = "/" THEN JoinWords(Tail(s), TRUE)
    ELSE (IF pending THEN <<"_">> ELSE <<>>) \o <<Head(s)>> \o JoinWords(Tail(s), FALSE)

RECURSIVE StripDots(_)
StripDots(s) ==
    IF s # <<>> /\ Head(s) \in {".", "_"} THEN StripDots(Tail(s))
    ELSE IF s # <<>> /\ s[Len(s)] \in {".", "_"} THEN StripDots(SubSeq(s, 1, Len(s) - 1))
    ELSE s

secure_filename(s) ==
    StripDots(SelectSeq(JoinWords(lstrip(s), FALSE), LAMBDA ch : ch \in SafeChars))

\* f"{current_user.id}_{int(datetime.utcnow().timestamp())}_{resume_file.filename}"
ResumeName(user_id, now, filename) ==
    secure_filename(<<ToString(user_id), "_", ToString(now), "_">> \o filename)

(***************************************************************************)
(* Apply                                                                    *)
(***************************************************************************)
\* line 281: Application.query.filter_by(job_id=..., applicant_id=...).first()
ExistingNotQueried(c, job_id) == {}

Existing(c, job_id) ==
    {a \in DOMAIN apps : a.job_id = job_id /\ a.applicant_id = current_user(c).id}

\* lines 279-299: everything apply() does before it builds the Application.
\* The result says how the request ends, or that it goes on to the insert.
apply_checks(c, job_id, method, form, now) ==
    IF ~is_authenticated(c) THEN [out |-> "unauthorized"]
    ELSE IF JobById(job_id) = {} THEN [out |-> "not_found"]
    ELSE IF Existing(c, job_id) # {}
    THEN [out |-> "existing"]
    ELSE IF method = "GET" THEN [out |-> "form"]
    ELSE LET filename == get(form, "resume", <<>>) IN
         IF filename = <<>>
         THEN [out |-> "insert", applicant_id |-> current_user(c).id, job_id |-> job_id,
               cover_letter |-> strip(get(form, "cover_letter", <<>>)),
               resume_filename |-> NoField]
         ELSE IF allowed_file(filename)
         THEN [out |-> "insert", applicant_id |-> current_user(c).id, job_id |-> job_id,
               cover_letter |-> strip(get(form, "cover_letter", <<>>)),
               resume_filename |-> ResumeName(current_user(c).id, now, filename)]
         ELSE [out |-> "invalid"]

\* resume_file.save(save_path)
SaveResume(r) ==
    files' = IF r.resume_filename = NoField THEN files ELSE files \cup {r.resume_filename}

\* lines 301-308: db.session.add(application); db.session.commit()
InsertApplicationUnique(r) ==
    apps' = IF \E a \in DOMAIN apps :
                 a.applicant_id = r.applicant_id /\ a.job_id = r.job_id
            THEN apps
            ELSE apps (+) SetToBag({Application(r.applicant_id, r.job_id,
                                                r.cover_letter, r.resume_filename)})

InsertApplication(r) ==
    apps' = apps (+) SetToBag({Application(r.applicant_id, r.job_id,
                                           r.cover_letter, r.resume_filename)})

\* lines 309-310; job.id is read again after the commit expired the Job object
Submitted(job_id) ==
    IF JobById(job_id) = {} THEN Abort(500)
    ELSE Redirect("Application submitted. Good luck!", "job_detail")

\* one apply request handled from start to end with no other request in between
apply(c, job_id, method, form, now) ==
    LET r == apply_checks(c, job_id, method, form, now) IN
    /\ UNCHANGED <<users, jobs, session, inflight>>
    /\ CASE r.out = "unauthorized" ->
              /\ resp' = Unauthorized
              /\ UNCHANGED <<apps, files>>
         [] r.out = "not_found" ->
              /\ resp' = Abort(404)
              /\ UNCHANGED <<apps, files>>
         [] r.out = "existing" ->
              /\ resp' = Redirect("You have already applied to this job.", "job_detail")
              /\ UNCHANGED <<apps, files>>
         [] r.out = "form" ->
              /\ resp' = Render("apply.html")
              /\ UNCHANGED <<apps, files>>
         [] r.out = "invalid" ->
              /\ resp' = Redirect("Invalid resume format. Allowed: pdf, doc, docx", "apply")
              /\ UNCHANGED <<apps, files>>
         [] r.out = "insert" ->
              /\ SaveResume(r)
              /\ InsertApplication(r)
              /\ resp' = Submitted(job_id)

\* The same handler on a worker thread of the threaded server, in two steps:
\* the reads (and the file save) first, the insert and commit later, with other
\* requests free to run in between.
apply_begin(w, c, job_id, method, form, now) ==
    LET r == apply_checks(c, job_id, method, form, now) IN
    /\ inflight[w] = <<>>
    /\ r.out = "insert"
    /\ SaveResume(r)
    /\ inflight' = [inflight EXCEPT ![w] = <<r>>]
    /\ UNCHANGED <<users, jobs, apps, session, resp>>

apply_commit(w) ==
    /\ inflight[w] # <<>>
    /\ InsertApplication(inflight[w][1])
    /\ resp' = Submitted(inflight[w][1].job_id)
    /\ inflight' = [inflight EXCEPT ![w] = <<>>]
    /\ UNCHANGED <<users, jobs, files, session>>

(***************************************************************************)
(* Admin                                                                    *)
(***************************************************************************)
\* @login_required, then @admin_required
AdminGateLoginOnly(c) == IF ~is_authenticated(c) THEN Unauthorized ELSE Abort(0)

AdminGate(c) ==
    IF ~is_authenticated(c) THEN Unauthorized
    ELSE IF ~current_user(c).is_admin THEN Abort(403)
    ELSE Abort(0)

admin_view(c, page) ==
    /\ resp' = IF AdminGate(c) # Abort(0) THEN AdminGate(c) ELSE Render(page)
    /\ UNCHANGED <<users, jobs, apps, files, session, inflight>>

\* line 382
IsOwnAccountNever(c, user) == FALSE

IsOwnAccount(c, user) == user.id = current_user(c).id

admin_delete_user(c, user_id) ==
    /\ UNCHANGED <<files, session, inflight>>
    /\ IF AdminGate(c) # Abort(0)
       THEN /\ resp' = AdminGate(c)
            /\ UNCHANGED <<users, jobs, apps>>
       ELSE IF UserById(user_id) = {}
       THEN /\ resp' = Abort(404)
            /\ UNCHANGED <<users, jobs, apps>>
       ELSE LET user == CHOOSE u \in UserById(user_id) : TRUE IN
            IF IsOwnAccount(c, user)
            THEN /\ resp' = Redirect("you cannot delete your own admin account.", "admin_users")
                 /\ UNCHANGED <<users, jobs, apps>>
            ELSE /\ DeleteUserRows(user)
                 /\ resp' = Redirect("User deleted", "admin_users")

admin_delete_job(c, job_id) ==
    /\ UNCHANGED <<users, files, session, inflight>>
    /\ IF AdminGate(c) # Abort(0)
       THEN /\ resp' = AdminGate(c)
            /\ UNCHANGED <<jobs, apps>>
       ELSE IF JobById(job_id) = {}
       THEN /\ resp' = Abort(404)
            /\ UNCHANGED <<jobs, apps>>
       ELSE /\ DeleteJobRows(CHOOSE j \in JobById(job_id) : TRUE)
            /\ resp' = Redirect("Job deleted.", "admin_jobs")

(***************************************************************************)
(* Requests: the forms and parameters the clients send                      *)
(***************************************************************************)
\* a request is <<method, form>>; a GET carries no form fields
Requests(blank, forms) == {<<"GET", blank>>} \cup {<<"POST", f>> : f \in forms}

Pwd     == <<"p", "w">>
On      == <<"o", "n">>
Clock   == 7                   \* int(datetime.utcnow().timestamp())

DefaultAdminEmail == <<"a">>   \* stands for the all-lower-case default
AdminEmails       == {<<"a">>, <<"A">>}

RegForm(fullname, email, password, confirm, is_employer) ==
    [fullname |-> fullname, email |-> email, password |-> password,
     confirm |-> confirm, is_employer |-> is_employer]

RegisterForms ==
    { RegForm(<<"n">>, <<" ", "A">>, Pwd, Pwd, On),
      RegForm(<<"n">>, <<"b">>, Pwd, Pwd, NoField),
      RegForm(<<"n">>, <<"B", " ">>, Pwd, Pwd, On),
      RegForm(<<" ">>, <<"b">>, Pwd, Pwd, On),
      RegForm(<<"n">>, <<"b">>, Pwd, ADMIN_PWD, On),
      RegForm(<<"n">>, NoField, Pwd, Pwd, NoField) }

RegisterRequests == Requests(RegForm(NoField, NoField, NoField, NoField, NoField), RegisterForms)

LoginForms ==
    { [email |-> <<"A", " ">>, password |-> ADMIN_PWD],
      [email |-> <<"a">>, password |-> Pwd],
      [email |-> <<"b">>, password |-> Pwd],
      [email |-> <<"b">>, password |-> ADMIN_PWD] }

LoginRequests == Requests([email |-> NoField, password |-> NoField], LoginForms)

JobForm(title, company, description) ==
    [job_title |-> title, company |-> company, salary |-> <<"1">>,
     description |-> description, location |-> NoField, job_type |-> NoField]

CreateForms ==
    { JobForm(<<"d", "e", "v">>, <<"c", "o">>, <<" ", "d", "o">>),
      JobForm(<<" ">>, <<"c", "o">>, <<"d", "o">>),
      JobForm(<<"d", "e", "v">>, NoField, <<"d", "o">>),
      JobForm(<<"d", "e", "v">>, <<"c", "o">>, <<>>) }

EditForms ==
    { JobForm(<<"d", "e", "v", " ">>, NoField, <<"d", "o">>),
      JobForm(<<" ">>, NoField, NoField) }

CreateRequests == Requests(JobForm(NoField, NoField, NoField), CreateForms)

EditRequests == Requests(JobForm(NoField, NoField, NoField), EditForms)

ApplyForm(cover_letter, resume) == [cover_letter |-> cover_letter, resume |-> resume]

ApplyForms ==
    { ApplyForm(<<"h", "i">>, NoField),
      ApplyForm(<<"h", "i">>, <<"c", "v", ".", "e", "x", "e">>) }

ApplyRequests == Requests(ApplyForm(NoField, NoField), ApplyForms)

AdminPages == {"admin/index.html", "admin/users.html", "admin/jobs.html"}

UserIds == 1 .. 3

(***************************************************************************)
(* Spec: accounts, jobs and applications, requests handled one at a time,   *)
(* the process started with the default ADMIN_EMAIL                         *)
(***************************************************************************)
InitWith(emails) ==
    /\ \E e \in emails : users = BootstrapUsers({}, e)
    /\ jobs = {}
    /\ apps = EmptyBag
    /\ files = {}
    /\ session = [c \in Clients |-> 0]
    /\ resp = Abort(0)
    /\ inflight = [w \in Workers |-> <<>>]

Init == InitWith({DefaultAdminEmail})

DoRegister == \E c \in Clients, r \in RegisterRequests : register(c, r[1], r[2])

DoLogin == \E c \in Clients, r \in LoginRequests : login(c, r[1], r[2])

DoLogout == \E c \in Clients : logout(c)

\* the table is kept to MaxJobs rows: a request that would add one more is left out
DoCreateJob ==
    \E c \in Clients, r \in CreateRequests :
        create_job(c, r[1], r[2]) /\ Cardinality(jobs') <= MaxJobs

DoEditJob ==
    \E c \in Clients, j \in JobIds, r \in EditRequests : edit_job(c, j, r[1], r[2])

DoDeleteJob == \E c \in Clients, j \in JobIds : delete_job(c, j)

DoApply ==
    \E c \in Clients, j \in JobIds, r \in ApplyRequests : apply(c, j, r[1], r[2], Clock)

DoAdminView == \E c \in Clients, p \in AdminPages : admin_view(c, p)

DoAdminDeleteUser == \E c \in Clients, u \in UserIds : admin_delete_user(c, u)

DoAdminDeleteJob == \E c \in Clients, j \in JobIds : admin_delete_job(c, j)

Next ==
    \/ DoRegister
    \/ DoLogin
    \/ DoLogout
    \/ DoCreateJob
    \/ DoEditJob
    \/ DoDeleteJob
    \/ DoApply
    \/ DoAdminDeleteUser
    \/ DoAdminDeleteJob

Spec == Init /\ [][Next]_vars

(***************************************************************************)
(* Properties of Spec                                                       *)
(***************************************************************************)
\* the number of application rows of applicant uid for job jid
PairCount(B, uid, jid) ==
    BagCardinality(Rows(B, LAMBDA a : a.applicant_id = uid /\ a.job_id = jid))

Identity(c) == CHOOSE u \in users : u.id = session[c]

LoggedIn(c) == \E u \in users : u.id = session[c]

JobExists(j) == \E job \in jobs : job.id = j

AlreadyApplied == Redirect("You have already applied to this job.", "job_detail")

\* C1: with requests handled one at a time, no (applicant, job) pair ever has
\* more than one application row; an apply request by an identity without a
\* row for the job either adds nothing or adds exactly one row for that pair,
\* and an apply request by an identity that has a row for the job is answered
\* "already applied" and leaves the table as it is.
C1_OneApplicationPerPair ==
    [][ /\ \A a \in DOMAIN apps' : apps'[a] = 1
        /\ \A a \in DOMAIN apps', b \in DOMAIN apps' :
             (a.applicant_id = b.applicant_id /\ a.job_id = b.job_id) => a = b
        /\ \A c \in Clients, j \in JobIds :
             (LoggedIn(c) /\ JobExists(j)) =>
                IF PairCount(apps, Identity(c).id, j) = 0
                THEN (/\ apps' # apps
                      /\ \E r \in ApplyRequests : apply(c, j, r[1], r[2], Clock)) =>
                        /\ PairCount(apps', Identity(c).id, j) = 1
                        /\ BagCardinality(apps') = BagCardinality(apps) + 1
                ELSE \A r \in ApplyRequests :
                        apply(c, j, r[1], r[2], Clock) =>
                           (apps' = apps /\ resp' = AlreadyApplied) ]_vars

\* a second apply by the same identity to the same job has been refused
C1_Witness ==
    /\ resp = AlreadyApplied
    /\ \E a \in DOMAIN apps : PairCount(apps, a.applicant_id, a.job_id) = 1

NotAllowedToEdit == Redirect("You are not allowed to edit this job.", "job_detail")

NotAllowedToDelete == Redirect("You are not allowed to delete this job.", "job_detail")

PosterOrAdmin(c, j) ==
    \E job \in jobs : job.id = j /\ (job.posted_by_id = Identity(c).id \/ Identity(c).is_admin)

\* C4: an edit or delete request for an existing job by a logged-in identity
\* that is neither the job's poster nor an admin is answered with the "not
\* allowed" message and a redirect and leaves the job rows and the
\* application rows unchanged.
C4_OnlyPosterOrAdminChangesJob ==
    [][ \A c \in Clients, j \in JobIds :
          (LoggedIn(c) /\ JobExists(j) /\ ~PosterOrAdmin(c, j)) =>
             /\ \A r \in EditRequests :
                  edit_job(c, j, r[1], r[2]) =>
                     (jobs' = jobs /\ apps' = apps /\ resp' = NotAllowedToEdit)
             /\ delete_job(c, j) =>
                  (jobs' = jobs /\ apps' = apps /\ resp' = NotAllowedToDelete) ]_vars

\* an identity that is neither poster nor admin has been refused, the job has
\* an application, and the job is still there
C4_Witness ==
    /\ resp \in {NotAllowedToEdit, NotAllowedToDelete}
    /\ \E job \in jobs : \E a \in DOMAIN apps : a.job_id = job.id

OnlyEmployers ==
    Redirect("Only employers can post jobs. Register as an emplyer or contact admin.", "index")

\* C5: a create_job request by a logged-in identity with neither the employer
\* nor the admin flag is answered "only employers" and adds no job row; every
\* job row that appears in a step is posted by a user who has the employer or
\* the admin flag in the state the request was made in.
C5_OnlyEmployersPost ==
    [][ /\ \A c \in Clients, r \in CreateRequests :
             (LoggedIn(c) /\ ~Identity(c).is_employer /\ ~Identity(c).is_admin
                /\ create_job(c, r[1], r[2])) =>
                (jobs' = jobs /\ resp' = OnlyEmployers)
        /\ \A job \in jobs' :
             (\A old \in jobs : old.id # job.id) =>
                \E u \in users : /\ u.id = job.posted_by_id
                                 /\ (u.is_employer \/ u.is_admin) ]_vars

\* a plain user has been refused while an employer's job exists
C5_Witness ==
    /\ resp = OnlyEmployers
    /\ jobs # {}
    /\ \E u \in users : ~u.is_employer /\ ~u.is_admin

OwnAccount == Redirect("you cannot delete your own admin account.", "admin_users")

\* C6: admin_delete_user by an admin with the admin's own id as target is
\* answered with the warning and the redirect to the user list, and no user,
\* job or application row changes.
C6_AdminCannotDeleteSelf ==
    [][ \A c \in Clients, u \in UserIds :
          (LoggedIn(c) /\ Identity(c).is_admin /\ u = Identity(c).id
             /\ admin_delete_user(c, u)) =>
             (users' = users /\ jobs' = jobs /\ apps' = apps /\ resp' = OwnAccount) ]_vars

\* the admin, who has a job and an application, was refused and is still there
C6_Witness ==
    /\ resp = OwnAccount
    /\ \E u \in users : /\ u.is_admin
                        /\ \E job \in jobs : job.posted_by_id = u.id
                        /\ \E a \in DOMAIN apps : a.applicant_id = u.id

\* C8: every job row has a non-empty title, company and description.
C8_JobFieldsNonEmpty ==
    \A job \in jobs :
        job.job_title # <<>> /\ job.company # <<>> /\ job.description # <<>>

(***************************************************************************)
(* SpecBoot: the accounts and the admin console, with the process started   *)
(* and restarted under any of the configured ADMIN_EMAIL values              *)
(***************************************************************************)
InitBoot == InitWith(AdminEmails)

BootStartup == \E e \in AdminEmails : Startup(e)

\* the clients register and log in with the address the admin is configured with
BootRegisterRequests ==
    {r \in RegisterRequests : r[2].email # NoField => lower(strip(r[2].email)) = <<"a">>}

BootLoginRequests ==
    {r \in LoginRequests : r[2].email # NoField => lower(strip(r[2].email)) = <<"a">>}

BootRegister == \E c \in Clients, r \in BootRegisterRequests : register(c, r[1], r[2])

BootLogin == \E c \in Clients, r \in BootLoginRequests : login(c, r[1], r[2])

NextBoot ==
    \/ BootStartup
    \/ BootRegister
    \/ BootLogin
    \/ DoLogout
    \/ DoCreateJob
    \/ DoAdminView
    \/ DoAdminDeleteUser
    \/ DoAdminDeleteJob

SpecBoot == InitBoot /\ [][NextBoot]_vars

\* C7: the emails of the user rows are pairwise distinct when compared
\* case-insensitively.
C7_EmailsDistinctIgnoringCase ==
    \A u \in users, v \in users : u # v => lower(u.email) # lower(v.email)

PastAdminGate(r) == r # Unauthorized /\ r # Abort(403)

\* C10: outside a startup step no user row gets or loses a flag and a new
\* user row is no admin; in a startup step only the row with the configured
\* ADMIN_EMAIL becomes admin; and every admin-only request that gets past the
\* gate was made by a logged-in identity with the admin flag.
C10_AdminOnlyFromBootstrap ==
    [][ /\ \/ \E e \in AdminEmails :
                /\ Startup(e)
                /\ \A u \in users' :
                     u.is_admin => \/ \E v \in users : v.id = u.id /\ v.is_admin
                                   \/ u.email = e
           \/ \A u \in users' :
                IF \E v \in users : v.id = u.id THEN u \in users ELSE ~u.is_admin
        /\ \A c \in Clients :
             (/\ ~(LoggedIn(c) /\ Identity(c).is_admin)
              /\ PastAdminGate(resp')) =>
                /\ \A pg \in AdminPages : ~admin_view(c, pg)
                /\ \A u \in UserIds : ~admin_delete_user(c, u)
                /\ \A j \in JobIds : ~admin_delete_job(c, j) ]_vars

\* a user who registered over HTTP was made admin by a later startup and has
\* deleted another user
C10_Witness ==
    /\ resp = Redirect("User deleted", "admin_users")
    /\ \E u \in users : u.is_admin /\ u.fullname # SiteAdmin

(***************************************************************************)
(* SpecUpload: applications with a resume file                              *)
(***************************************************************************)
ResumeNames ==
    { <<"a", ".", "p", "d", "f">>,
      <<"a", " ", "e", ".", "D", "o", "c">>,
      <<"A", ".", "e", ".", "d", "o", "c", "x">>,
      <<"a", ".", "e", "x", "e">>,
      <<"p", "d", "f">>,
      <<"a", ".", "p", "d", "f", ".", "e">>,
      <<"d", "o", "c", ".">> }

UploadForms == {ApplyForm(<<>>, n) : n \in ResumeNames \cup {NoField, <<>>}}

\* one browser is enough here: it registers, logs out and logs in again
UploadClients == {"c1"}

UploadRegister ==
    \E c \in UploadClients : register(c, "POST", RegForm(<<"n">>, <<"b">>, Pwd, Pwd, NoField))

UploadLogin ==
    \E c \in UploadClients : login(c, "POST", [email |-> <<"a">>, password |-> ADMIN_PWD])

UploadCreateJob ==
    \E c \in UploadClients :
        /\ create_job(c, "POST", JobForm(<<"d", "e", "v">>, <<"c", "o">>, <<"d", "o">>))
        /\ Cardinality(jobs') <= MaxJobs

UploadApply ==
    \E c \in UploadClients, j \in JobIds, f \in UploadForms : apply(c, j, "POST", f, Clock)

UploadLogout == \E c \in UploadClients : logout(c)

UploadDeleteJob == \E c \in UploadClients, j \in JobIds : delete_job(c, j)

NextUpload ==
    \/ UploadRegister
    \/ UploadLogin
    \/ UploadLogout
    \/ UploadCreateJob
    \/ UploadDeleteJob
    \/ UploadApply

SpecUpload == Init /\ [][NextUpload]_vars

InvalidResume == Redirect("Invalid resume format. Allowed: pdf, doc, docx", "apply")

GoodExtension(name) ==
    \E i \in 1 .. Len(name) :
        /\ name[i] = "."
        /\ \A k \in (i + 1) .. Len(name) : name[k] # "."
        /\ lower(SubSeq(name, i + 1, Len(name))) \in
             {<<"p", "d", "f">>, <<"d", "o", "c">>, <<"d", "o", "c", "x">>}

\* C9: an apply POST with a resume file, by a logged-in identity that has not
\* applied to the existing job: if the text after the file name's last dot,
\* lower-cased, is pdf, doc or docx, one application row is added for the
\* pair, with a file reference that names a stored file; otherwise (another
\* extension, or no dot) the answer is the "invalid resume format" redirect,
\* no row is added and no file is stored.
C9_ResumeExtension ==
    [][ \A c \in UploadClients, j \in JobIds, f \in UploadForms :
          (/\ LoggedIn(c) /\ JobExists(j)
           /\ PairCount(apps, Identity(c).id, j) = 0
           /\ f.resume \notin {NoField, <<>>}
           /\ apply(c, j, "POST", f, Clock)) =>
             IF GoodExtension(f.resume)
             THEN /\ BagCardinality(apps') = BagCardinality(apps) + 1
                  /\ \E a \in DOMAIN apps' :
                       /\ a.applicant_id = Identity(c).id /\ a.job_id = j
                       /\ a.resume_path # NoField
                       /\ a.resume_path \in files'
             ELSE /\ apps' = apps
                  /\ files' = files
                  /\ resp' = InvalidResume ]_vars

\* a file with a bad extension has just been refused, and an application with
\* an upper-case extension is stored
C9_Witness ==
    /\ resp = InvalidResume
    /\ \E a \in DOMAIN apps :
         /\ a.resume_path # NoField
         /\ a.resume_path \in files
         /\ \E i \in 1 .. Len(a.resume_path) : a.resume_path[i] = "D"

(***************************************************************************)
(* SpecConc: apply requests on the worker threads of the threaded server,   *)
(* interleaved with each other and with the other requests                  *)
(***************************************************************************)
ConcClients == {"c1"}     \* one browser can have several requests in flight

ConcApplyForm == ApplyForm(<<"h", "i">>, NoField)

ConcRegister ==
    \E c \in ConcClients : register(c, "POST", RegForm(<<"n">>, <<"b">>, Pwd, Pwd, On))

ConcLogin ==
    \E c \in ConcClients : login(c, "POST", [email |-> <<"a">>, password |-> ADMIN_PWD])

ConcLogout == \E c \in ConcClients : logout(c)

ConcCreateJob ==
    \E c \in ConcClients :
        /\ create_job(c, "POST", JobForm(<<"d", "e", "v">>, <<"c", "o">>, <<"d", "o">>))
        /\ Cardinality(jobs') <= MaxJobs

ConcDeleteJob == \E c \in ConcClients, j \in JobIds : delete_job(c, j)

ConcAdminDeleteUser == \E c \in ConcClients, u \in UserIds : admin_delete_user(c, u)

ConcApply == \E c \in ConcClients, j \in JobIds : apply(c, j, "POST", ConcApplyForm, Clock)

ConcApplyBegin ==
    \E w \in Workers, c \in ConcClients, j \in JobIds :
        apply_begin(w, c, j, "POST", ConcApplyForm, Clock)

ConcApplyCommit == \E w \in Workers : apply_commit(w)

NextConc ==
    \/ ConcRegister
    \/ ConcLogin
    \/ ConcLogout
    \/ ConcCreateJob
    \/ ConcDeleteJob
    \/ ConcAdminDeleteUser
    \/ ConcApply
    \/ ConcApplyBegin
    \/ ConcApplyCommit

SpecConc == Init /\ [][NextConc]_vars

\* C2: the insert of an apply request that passed its existence query always
\* adds a row for its (applicant, job) pair, whatever rows the table holds by
\* then: nothing in storage refuses a second row for the pair.
C2_CheckThenInsertRace ==
    [][ \A w \in Workers :
          (inflight[w] # <<>> /\ apply_commit(w)) =>
             LET r == inflight[w][1] IN
             PairCount(apps', r.applicant_id, r.job_id)
               = PairCount(apps, r.applicant_id, r.job_id) + 1 ]_vars

\* two interleaved apply requests of one identity for one job have both
\* committed: the pair has two rows
C2_Witness ==
    /\ \A w \in Workers : inflight[w] = <<>>
    /\ resp = Redirect("Application submitted. Good luck!", "job_detail")
    /\ \E u \in users, job \in jobs : PairCount(apps, u.id, job.id) = 2

\* C3: every application references an existing user and an existing job, and
\* every job references an existing poster.
C3_ReferentialIntegrity ==
    /\ \A a \in DOMAIN apps :
         /\ \E u \in users : u.id = a.applicant_id
         /\ \E job \in jobs : job.id = a.job_id
    /\ \A job \in jobs : \E u \in users : u.id = job.posted_by_id

=============================================================================
